---- MODULE Spec2Model ----
(***************************************************************************)
(* Model of the workload applicator of the OAM Kubernetes runtime:         *)
(* pkg/controller/oam/applicationconfiguration/apply.go.                   *)
(*                                                                         *)
(* One call of workloads.Apply is a "pass".  A pass is modelled step by    *)
(* step, one action per storage operation the code issues, with the        *)
(* position of the pass kept in pc, i, j, si and ci.  Every operation of   *)
(* the object store and of the field accessor may fail; the failure is a   *)
(* nondeterministic input of the step.                                     *)
(***************************************************************************)
EXTENDS Integers, Sequences, FiniteSets, TLC

\* ---------------------------------------------------------------- bounds
MaxWl == 2        \* workloads in one workload set
MaxTraits == 1    \* traits attached to one workload
MaxScopes == 2    \* scopes attached to one workload / recorded in one status
MaxStatus == 1    \* prior-status entries
MaxPasses == 2    \* passes the caller drives in one behaviour
MaxRefs == 2      \* members a scope holds before the first join or leave
MaxCalls == 3     \* joins and leaves called one after the other

\* ------------------------------------------------------------ value types
NoErr == "nil"

TypedReference(av, k, n) == [apiVersion |-> av, kind |-> k, name |-> n]
\* A trait field that holds no reference.
NoRef == TypedReference("", "", "")
\* The value at spec.workloadRefs of a scope document: a list, or nothing at
\* all (GetValue then returns an error and the code keeps a nil list).
RefList(l) == [set |-> TRUE, refs |-> l]
Absent == [set |-> FALSE, refs |-> <<>>]

w1 == TypedReference("core/v1alpha2", "ContainerizedWorkload", "web")
w2 == TypedReference("core/v1alpha2", "Deployment", "web")
w3 == TypedReference("core/v1alpha2", "ContainerizedWorkload", "db")
WRefs == {w1, w2}

scA == TypedReference("core/v1alpha2", "HealthScope", "health-scope")
scB == TypedReference("core/v1alpha2", "HealthScope", "old-scope")
ScopeRefs == {scA, scB}

\* Sequences over S of length at most n.
RECURSIVE SeqUpTo(_, _)
SeqUpTo(S, n) ==
    IF n = 0 THEN {<<>>}
    ELSE LET P == SeqUpTo(S, n - 1)
         IN  P \cup {Append(p, x) : p \in {q \in P : Len(q) = n - 1}, x \in S}

Range(s) == {s[k] : k \in 1..Len(s)}
NoDup(s) == \A a, b \in 1..Len(s) : s[a] = s[b] => a = b
Count(s, x) == Cardinality({k \in 1..Len(s) : s[k] = x})

\* ------------------------------------------------------------- documents
\* Trait kinds and the trait definitions the cluster holds: the field path
\* at which the definition asks for the owning workload's reference ("" when
\* it asks for none).
PathWorkloadRef == "spec.workloadRef"
TraitKinds == {"ManualScalerTrait", "RolloutTrait"}
TraitDefinitions ==
    [k \in TraitKinds |->
        [WorkloadRefPath |-> IF k = "ManualScalerTrait" THEN PathWorkloadRef ELSE ""]]

\* A trait document as supplied by the caller: no field is stamped yet.
TraitDoc(k) == [kind |-> k, name |-> "example-appconfig-trait", path |-> "", value |-> NoRef]
\* A scope document: its identity and the value at spec.workloadRefs.
ScopeDoc(r, v) == [ref |-> r, workloadRefs |-> v]
\* v1alpha2.WorkloadScope and v1alpha2.WorkloadStatus.
WorkloadScope(r) == [Reference |-> r]
WorkloadStatus(r, ss) == [Reference |-> r, Scopes |-> ss]
\* Workload of the applicator: the workload document (its identity), its
\* traits and its scopes.
Workload(r, ts, ss) == [Workload |-> r, Traits |-> ts, Scopes |-> ss]

\* ------------------------------------------------------- pure functions
\* A faulty variant of SameRef: the references are compared by name alone.
SameRefByName(a, b) == a.name = b.name

\* Structural equality of apiVersion, kind and name.
SameRef(a, b) ==
    /\ a.apiVersion = b.apiVersion
    /\ a.kind = b.kind
    /\ a.name = b.name

\* findDereferencedScopes: the status scopes no scope of the workload equals.
findDereferencedScopes(statusScopes, scopes) ==
    SelectSeq(statusScopes,
              LAMBDA ss : ~ \E k \in 1..Len(scopes) : SameRef(scopes[k].ref, ss.Reference))

\* The candidates dereferenceScope computes for one status entry: all the
\* recorded scopes, narrowed by every workload of the set that matches the
\* entry, the last match deciding.
Matches(st, wset) == {k \in 1..Len(wset) : SameRef(st.Reference, wset[k].Workload)}
LastOf(S) == CHOOSE m \in S : \A k \in S : k <= m
\* A faulty variant of ToBeDeferenced: the first matching workload decides.
ToBeDeferencedFirstMatch(st, wset) ==
    IF Matches(st, wset) = {} THEN st.Scopes
    ELSE findDereferencedScopes(st.Scopes,
            wset[CHOOSE m \in Matches(st, wset) : \A k \in Matches(st, wset) : m <= k].Scopes)

ToBeDeferenced(st, wset) ==
    IF Matches(st, wset) = {} THEN st.Scopes
    ELSE findDereferencedScopes(st.Scopes, wset[LastOf(Matches(st, wset))].Scopes)

\* applyScope: the list read from spec.workloadRefs, nil when GetValue fails.
RefsOf(v) == IF v.set THEN v.refs ELSE <<>>
\* A faulty variant of RefPresent: the scan stops after the first entry.
RefPresentFirstOnly(v, r) == v.set /\ Len(v.refs) > 0 /\ SameRef(r, v.refs[1])

\* applyScope: is workloadRef already in the list.
RefPresent(v, r) == v.set /\ \E k \in 1..Len(v.refs) : SameRef(r, v.refs[k])
\* applyScope: refs = append(refs, workloadRef).
JoinRefs(v, r) == RefList(Append(RefsOf(v), r))
\* applyScopeRemoval: the index of the first entry equal to workloadRef, or 0.
RefIndex(refs, r) ==
    IF \E k \in 1..Len(refs) : SameRef(r, refs[k])
    THEN CHOOSE k \in 1..Len(refs) :
            /\ SameRef(r, refs[k])
            /\ \A m \in 1..(k - 1) : ~SameRef(r, refs[m])
    ELSE 0
\* applyScopeRemoval: refs[i] = refs[len-1]; refs = refs[:len-1].
LeaveRefs(refs, idx) ==
    SubSeq([refs EXCEPT ![idx] = refs[Len(refs)]], 1, Len(refs) - 1)

\* ------------------------------------------------------------ error kinds
errNoComponent == "the application has no component"
errFmtApplyWorkload == "cannot apply workload"
errFmtSetWorkloadRef == "cannot set trait reference"
errFmtGetTraitDefinition == "cannot find trait definition"
errFmtApplyTrait == "cannot apply trait"
errFmtApplyScope == "cannot apply scope"

\* ------------------------------------------------------------------ state
VARIABLES
    store,          \* the object store: workloads, traits, scope membership lists
    status,         \* Apply's parameter: the prior status
    w,              \* Apply's parameter: the workload set (documents are mutated in place)
    w0,             \* the workload set as the caller built it
    pc,             \* position of the pass
    i,              \* index of the workload being applied
    j,              \* index of the trait being applied
    si,             \* index of the status entry being reconciled
    ci,             \* index of the scope being left
    toBeDeferenced, \* dereferenceScope's candidates of the current status entry
    err,            \* what Apply returned
    ops,            \* the calls the pass has made, in order
    pass,           \* number of the pass
    prevStore,      \* the store when the previous pass returned
    prevErr,        \* what the previous pass returned
    inflight        \* the passes running at the same time, each with what it has read

vars == <<store, status, w, w0, pc, i, j, si, ci, toBeDeferenced, err, ops, pass,
          prevStore, prevErr, inflight>>

\* ----------------------------------------------------------------- inputs
\* Membership lists the stored scopes hold before the first pass, and the
\* lists the scope documents of the workload set carry: none at all, one
\* member, two members.  No list holds a reference twice.
StoreValues == {Absent, RefList(<<w1>>), RefList(<<w1, w2>>)}
DocValues == {Absent, RefList(<<w1>>), RefList(<<w2, w1>>)}
\* Scope lists of a workload or of a status entry: no scope named twice.
ScopeSeqs == {q \in SeqUpTo(ScopeRefs, MaxScopes) : NoDup(q)}
TraitLists == {[k \in 1..Len(q) |-> TraitDoc(q[k])] : q \in SeqUpTo(TraitKinds, MaxTraits)}
\* The workloads that carry the traits ts and whose scope documents all hold
\* the value v.
Workloads(ts, v) ==
    {Workload(r, ts, [k \in 1..Len(ss) |-> ScopeDoc(ss[k], v)]) :
        r \in WRefs, ss \in ScopeSeqs}
StatusEntries ==
    {WorkloadStatus(r, [k \in 1..Len(ss) |-> WorkloadScope(ss[k])]) :
        r \in WRefs, ss \in ScopeSeqs}

Op(o, a, b, x, k) == [op |-> o, at |-> a, sub |-> b, obj |-> x, ok |-> k]

\* The reference Apply builds for the workload it has applied.
WorkloadRef(wl) ==
    TypedReference(wl.Workload.apiVersion, wl.Workload.kind, wl.Workload.name)

Init ==
    /\ store \in [workloads : {{}}, traits : {{}}, scopes : [ScopeRefs -> StoreValues]]
    /\ status = <<>>
    /\ w = <<>>
    /\ w0 = <<>>
    /\ pc = "idle"
    /\ i = 0
    /\ j = 0
    /\ si = 0
    /\ ci = 0
    /\ toBeDeferenced = <<>>
    /\ err = NoErr
    /\ ops = <<>>
    /\ pass = 0
    /\ prevStore = store
    /\ prevErr = NoErr
    /\ inflight = <<>>

\* ------------------------------------------------------------ control flow
\* A faulty variant of AfterTraits: the scope loop is passed over.
AfterTraitsPastScopes(k) ==
    IF k < Len(w) THEN [pc |-> "workload", i |-> k + 1]
    ELSE [pc |-> "deref", i |-> k]

\* Where the pass goes once workload k and its traits are applied: into the
\* scope loop when the workload has a scope, to the next workload, or out of
\* the workload loop into dereferenceScope.
AfterTraits(k) ==
    IF Len(w[k].Scopes) > 0 THEN [pc |-> "scope", i |-> k]
    ELSE IF k < Len(w) THEN [pc |-> "workload", i |-> k + 1]
    ELSE [pc |-> "deref", i |-> k]

\* A faulty variant of Return: the pass ends and the error is dropped.
ReturnSwallowed(e) ==
    /\ pc' = "done"
    /\ err' = NoErr

\* Apply returns e: the pass is over.
Return(e) ==
    /\ pc' = "done"
    /\ err' = e

\* util.FetchTraitDefinition: the definition of the trait's kind.
FetchTraitDefinition(t) == TraitDefinitions[t.kind]

\* client.Apply of a trait: the stored document of that kind and name is replaced.
PutTrait(ts, t) == {d \in ts : d.kind # t.kind \/ d.name # t.name} \cup {t}

\* A faulty variant of SetWorkloadRef: the trait is left as it was supplied.
SetWorkloadRefSkipped(t, workloadRefPath, workloadRef) == t

\* Lines 82-87: the reference is set in the trait at the path its definition
\* names, when it names one.
SetWorkloadRef(t, workloadRefPath, workloadRef) ==
    IF workloadRefPath # ""
    THEN [t EXCEPT !.path = workloadRefPath, !.value = workloadRef]
    ELSE t

\* ------------------------------------------------------------------ actions
\* A faulty variant of Begin: an empty workload set is not refused, the pass goes
\* straight to dereferenceScope.
BeginEmptyAccepted(wset) ==
    /\ pass' = pass + 1
    /\ ops' = <<>>
    /\ w' = wset
    /\ j' = 0
    /\ si' = 0
    /\ ci' = 0
    /\ toBeDeferenced' = <<>>
    /\ err' = NoErr
    /\ IF Len(wset) = 0
       THEN pc' = "deref" /\ i' = 0
       ELSE pc' = "workload" /\ i' = 1

\* Lines 62-67: the entry of Apply.
Begin(wset) ==
    /\ pass' = pass + 1
    /\ ops' = <<>>
    /\ w' = wset
    /\ j' = 0
    /\ si' = 0
    /\ ci' = 0
    /\ toBeDeferenced' = <<>>
    /\ IF Len(wset) = 0
       THEN Return(errNoComponent) /\ i' = 0
       ELSE pc' = "workload" /\ i' = 1 /\ err' = NoErr

\* The caller's first pass, over a prior status and a workload set it built.
ApplyCall ==
    /\ pc = "idle"
    /\ pass < MaxPasses
    /\ \E st \in SeqUpTo(StatusEntries, MaxStatus), ts \in TraitLists, v \in DocValues :
       \E wset \in SeqUpTo(Workloads(ts, v), MaxWl) :
          /\ status' = st
          /\ w0' = wset
          /\ Begin(wset)
    /\ UNCHANGED <<store, prevStore, prevErr>>
    /\ UNCHANGED inflight

\* After a pass that returned nil the caller drives another pass with the
\* same prior status and the same workload set: the documents of the previous
\* pass, or documents built anew.
Redrive ==
    /\ pc = "done"
    /\ err = NoErr
    /\ pass < MaxPasses
    /\ \E fresh \in BOOLEAN : Begin(IF fresh THEN w0 ELSE w)
    /\ prevStore' = store
    /\ prevErr' = err
    /\ UNCHANGED <<store, status, w0>>
    /\ UNCHANGED inflight

\* Lines 68-76: client.Apply of the workload.
\* A faulty variant of ApplyWorkload: the applied workload replaces the stored ones.
ApplyWorkloadReplacing ==
    /\ pc = "workload"
    /\ \E ok \in BOOLEAN :
        /\ ops' = Append(ops, Op("ApplyWorkload", i, 0, w[i].Workload, ok))
        /\ IF ok
           THEN /\ store' = [store EXCEPT !.workloads = {w[i].Workload}]
                /\ err' = NoErr
                /\ IF Len(w[i].Traits) > 0
                   THEN pc' = "trait" /\ j' = 1 /\ i' = i
                   ELSE pc' = AfterTraits(i).pc /\ i' = AfterTraits(i).i /\ j' = 0
           ELSE /\ Return(errFmtApplyWorkload)
                /\ UNCHANGED <<store, i, j>>
    /\ UNCHANGED <<status, w, w0, si, ci, toBeDeferenced, pass, prevStore, prevErr>>
    /\ UNCHANGED inflight

ApplyWorkload ==
    /\ pc = "workload"
    /\ \E ok \in BOOLEAN :
        /\ ops' = Append(ops, Op("ApplyWorkload", i, 0, w[i].Workload, ok))
        /\ IF ok
           THEN /\ store' = [store EXCEPT !.workloads = @ \cup {w[i].Workload}]
                /\ err' = NoErr
                /\ IF Len(w[i].Traits) > 0
                   THEN pc' = "trait" /\ j' = 1 /\ i' = i
                   ELSE pc' = AfterTraits(i).pc /\ i' = AfterTraits(i).i /\ j' = 0
           ELSE /\ Return(errFmtApplyWorkload)
                /\ UNCHANGED <<store, i, j>>
    /\ UNCHANGED <<status, w, w0, si, ci, toBeDeferenced, pass, prevStore, prevErr>>
    /\ UNCHANGED inflight

\* Lines 78-95: one trait of the workload: the definition is fetched, the
\* reference is set when the definition asks for it, the trait is applied.
ApplyTrait ==
    /\ pc = "trait"
    /\ LET t == w[i].Traits[j]
           path == FetchTraitDefinition(t).WorkloadRefPath
           stamped == SetWorkloadRef(t, path, WorkloadRef(w[i]))
           fetched == Append(ops, Op("FetchTraitDefinition", i, j, t, TRUE))
           paved == IF path # ""
                    THEN Append(fetched, Op("SetValue", i, j, stamped, TRUE))
                    ELSE fetched
       IN  \E out \in {"ok", "fetch", "set", "apply"} :
            CASE out = "fetch" ->
                    /\ ops' = Append(ops, Op("FetchTraitDefinition", i, j, t, FALSE))
                    /\ Return(errFmtGetTraitDefinition)
                    /\ UNCHANGED <<store, w, i, j>>
              [] out = "set" ->
                    /\ path # ""
                    /\ ops' = Append(fetched, Op("SetValue", i, j, t, FALSE))
                    /\ Return(errFmtSetWorkloadRef)
                    /\ UNCHANGED <<store, w, i, j>>
              [] out = "apply" ->
                    /\ ops' = Append(paved, Op("ApplyTrait", i, j, stamped, FALSE))
                    /\ w' = [w EXCEPT ![i].Traits[j] = stamped]
                    /\ Return(errFmtApplyTrait)
                    /\ UNCHANGED <<store, i, j>>
              [] out = "ok" ->
                    /\ ops' = Append(paved, Op("ApplyTrait", i, j, stamped, TRUE))
                    /\ w' = [w EXCEPT ![i].Traits[j] = stamped]
                    /\ store' = [store EXCEPT !.traits = PutTrait(@, stamped)]
                    /\ err' = NoErr
                    /\ IF j < Len(w[i].Traits)
                       THEN pc' = "trait" /\ j' = j + 1 /\ i' = i
                       ELSE pc' = AfterTraits(i).pc /\ i' = AfterTraits(i).i /\ j' = 0
    /\ UNCHANGED <<status, w0, si, ci, toBeDeferenced, pass, prevStore, prevErr>>
    /\ UNCHANGED inflight

\* Lines 147-174, applyScope: what the join of workloadRef into the scope
\* document s does when its steps end as out says.  The result names the
\* error returned, the document after the call (it is mutated in place),
\* whether the document was written to the store, and the calls made.
applyScopeOutcomes(s, workloadRef) ==
    IF RefPresent(s.workloadRefs, workloadRef) THEN {"ok"} ELSE {"ok", "set", "update"}

applyScope(at, s, workloadRef, out) ==
    LET joined == [s EXCEPT !.workloadRefs = JoinRefs(s.workloadRefs, workloadRef)]
        called == <<Op("applyScope", at, 1, [s |-> s, workloadRef |-> workloadRef], TRUE)>>
    IN  IF RefPresent(s.workloadRefs, workloadRef)
        THEN [err |-> NoErr, s |-> s, written |-> FALSE, calls |-> called]
        ELSE CASE out = "set" ->
                    [err |-> errFmtSetWorkloadRef, s |-> s, written |-> FALSE,
                     calls |-> Append(called, Op("SetValue", at, 1, s, FALSE))]
               [] out = "update" ->
                    [err |-> errFmtApplyScope, s |-> joined, written |-> FALSE,
                     calls |-> Append(called, Op("UpdateScope", at, 1, joined, FALSE))]
               [] out = "ok" ->
                    [err |-> NoErr, s |-> joined, written |-> TRUE,
                     calls |-> Append(called, Op("UpdateScope", at, 1, joined, TRUE))]

\* A faulty variant of ApplyScope: after a join that returned nil the pass
\* goes on to the next workload and then to dereferenceScope.
ApplyScopeThenOn ==
    /\ pc = "scope"
    /\ \E out \in applyScopeOutcomes(w[i].Scopes[1], WorkloadRef(w[i])) :
        LET r == applyScope(i, w[i].Scopes[1], WorkloadRef(w[i]), out)
        IN  /\ ops' = ops \o r.calls
            /\ w' = [w EXCEPT ![i].Scopes[1] = r.s]
            /\ store' = IF r.written
                        THEN [store EXCEPT !.scopes[r.s.ref] = r.s.workloadRefs]
                        ELSE store
            /\ IF r.err # NoErr
               THEN Return(r.err) /\ i' = i
               ELSE /\ err' = NoErr
                    /\ IF i < Len(w)
                       THEN pc' = "workload" /\ i' = i + 1
                       ELSE pc' = "deref" /\ i' = i
    /\ UNCHANGED <<status, w0, j, si, ci, toBeDeferenced, pass, prevStore, prevErr>>
    /\ UNCHANGED inflight

\* Lines 97-99: the scope loop of the workload returns what applyScope
\* returns for the first scope.
ApplyScope ==
    /\ pc = "scope"
    /\ \E out \in applyScopeOutcomes(w[i].Scopes[1], WorkloadRef(w[i])) :
        LET r == applyScope(i, w[i].Scopes[1], WorkloadRef(w[i]), out)
        IN  /\ ops' = ops \o r.calls
            /\ w' = [w EXCEPT ![i].Scopes[1] = r.s]
            /\ store' = IF r.written
                        THEN [store EXCEPT !.scopes[r.s.ref] = r.s.workloadRefs]
                        ELSE store
            /\ Return(r.err)
    /\ UNCHANGED <<status, w0, i, j, si, ci, toBeDeferenced, pass, prevStore, prevErr>>
    /\ UNCHANGED inflight

\* Lines 102 and 105-114: dereferenceScope takes the next status entry and
\* computes its candidates, or returns nil after the last entry.
DereferenceScope ==
    /\ pc = "deref"
    /\ LET called == IF si = 0
                      THEN Append(ops, Op("dereferenceScope", 0, 0, NoRef, TRUE))
                      ELSE ops
       IN
       IF si + 1 > Len(status)
       THEN /\ Return(NoErr)
            /\ ops' = called
            /\ UNCHANGED <<si, ci, toBeDeferenced>>
       ELSE LET cand == ToBeDeferenced(status[si + 1], w)
            IN  /\ si' = si + 1
                /\ toBeDeferenced' = cand
                /\ ops' = Append(called, Op("findDereferencedScopes", si + 1, 0,
                                            status[si + 1].Reference, TRUE))
                /\ err' = NoErr
                /\ IF Len(cand) > 0
                   THEN pc' = "leave" /\ ci' = 1
                   ELSE pc' = "deref" /\ ci' = 0
    /\ UNCHANGED <<store, status, w, w0, i, j, pass, prevStore, prevErr>>
    /\ UNCHANGED inflight

\* Lines 176-222, applyScopeRemoval: what the removal of the reference of
\* the status entry ws from the stored scope s names does when its steps end
\* as out says.  scopes is what the store holds.  The result names the error
\* returned, whether the scope was written, the list written, the calls made.
applyScopeRemovalOutcomes(scopes, ws, s) ==
    IF scopes[s.Reference].set /\ RefIndex(scopes[s.Reference].refs, ws.Reference) > 0
    THEN {"ok", "get", "set", "update"}
    ELSE {"ok", "get"}

\* A faulty variant of applyScopeRemoval: a failed Update is not returned.
applyScopeRemovalUpdateIgnored(at, sub, scopes, ws, s, out) ==
    LET workloadRef == TypedReference(ws.Reference.apiVersion, ws.Reference.kind,
                                      ws.Reference.name)
        scopeObject == ScopeDoc(s.Reference, scopes[s.Reference])
        refs == scopeObject.workloadRefs.refs
        workloadRefIndex == IF scopeObject.workloadRefs.set
                            THEN RefIndex(refs, workloadRef) ELSE 0
        left == ScopeDoc(s.Reference, RefList(LeaveRefs(refs, workloadRefIndex)))
        asked == [s |-> s.Reference, workloadRef |-> workloadRef]
        got == <<Op("applyScopeRemoval", at, sub, asked, TRUE),
                 Op("GetScope", at, sub, scopeObject, TRUE)>>
    IN  CASE out = "get" ->
                [err |-> errFmtApplyScope, written |-> FALSE, value |-> scopeObject.workloadRefs,
                 calls |-> <<Op("applyScopeRemoval", at, sub, asked, TRUE),
                             Op("GetScope", at, sub, ScopeDoc(s.Reference, Absent), FALSE)>>]
          [] out = "set" ->
                [err |-> errFmtSetWorkloadRef, written |-> FALSE, value |-> scopeObject.workloadRefs,
                 calls |-> Append(got, Op("SetValue", at, sub, scopeObject, FALSE))]
          [] out = "update" ->
                [err |-> NoErr, written |-> FALSE, value |-> scopeObject.workloadRefs,
                 calls |-> Append(got, Op("UpdateScope", at, sub, left, FALSE))]
          [] out = "ok" ->
                IF workloadRefIndex > 0
                THEN [err |-> NoErr, written |-> TRUE, value |-> left.workloadRefs,
                      calls |-> Append(got, Op("UpdateScope", at, sub, left, TRUE))]
                ELSE [err |-> NoErr, written |-> FALSE, value |-> scopeObject.workloadRefs,
                      calls |-> got]

applyScopeRemoval(at, sub, scopes, ws, s, out) ==
    LET workloadRef == TypedReference(ws.Reference.apiVersion, ws.Reference.kind,
                                      ws.Reference.name)
        scopeObject == ScopeDoc(s.Reference, scopes[s.Reference])
        refs == scopeObject.workloadRefs.refs
        workloadRefIndex == IF scopeObject.workloadRefs.set
                            THEN RefIndex(refs, workloadRef) ELSE 0
        left == ScopeDoc(s.Reference, RefList(LeaveRefs(refs, workloadRefIndex)))
        asked == [s |-> s.Reference, workloadRef |-> workloadRef]
        got == <<Op("applyScopeRemoval", at, sub, asked, TRUE),
                 Op("GetScope", at, sub, scopeObject, TRUE)>>
    IN  CASE out = "get" ->
                [err |-> errFmtApplyScope, written |-> FALSE, value |-> scopeObject.workloadRefs,
                 calls |-> <<Op("applyScopeRemoval", at, sub, asked, TRUE),
                             Op("GetScope", at, sub, ScopeDoc(s.Reference, Absent), FALSE)>>]
          [] out = "set" ->
                [err |-> errFmtSetWorkloadRef, written |-> FALSE, value |-> scopeObject.workloadRefs,
                 calls |-> Append(got, Op("SetValue", at, sub, scopeObject, FALSE))]
          [] out = "update" ->
                [err |-> errFmtApplyScope, written |-> FALSE, value |-> scopeObject.workloadRefs,
                 calls |-> Append(got, Op("UpdateScope", at, sub, left, FALSE))]
          [] out = "ok" ->
                IF workloadRefIndex > 0
                THEN [err |-> NoErr, written |-> TRUE, value |-> left.workloadRefs,
                      calls |-> Append(got, Op("UpdateScope", at, sub, left, TRUE))]
                ELSE [err |-> NoErr, written |-> FALSE, value |-> scopeObject.workloadRefs,
                      calls |-> got]

\* Lines 116-120: the removal of one candidate; an error ends the pass.
ApplyScopeRemoval ==
    /\ pc = "leave"
    /\ \E out \in applyScopeRemovalOutcomes(store.scopes, status[si], toBeDeferenced[ci]) :
        LET s == toBeDeferenced[ci]
            r == applyScopeRemoval(si, ci, store.scopes, status[si], s, out)
        IN  /\ ops' = ops \o r.calls
            /\ store' = IF r.written
                        THEN [store EXCEPT !.scopes[s.Reference] = r.value]
                        ELSE store
            /\ IF r.err # NoErr
               THEN Return(r.err) /\ UNCHANGED ci
               ELSE /\ err' = NoErr
                    /\ IF ci < Len(toBeDeferenced)
                       THEN pc' = "leave" /\ ci' = ci + 1
                       ELSE pc' = "deref" /\ ci' = 0
    /\ UNCHANGED <<status, w, w0, i, j, si, toBeDeferenced, pass, prevStore, prevErr>>
    /\ UNCHANGED inflight

Next ==
    \/ ApplyCall
    \/ Redrive
    \/ ApplyWorkload
    \/ ApplyTrait
    \/ ApplyScope
    \/ DereferenceScope
    \/ ApplyScopeRemoval

Spec == Init /\ [][Next]_vars

\* ----------------------------------------------- joins and leaves alone
\* The scope mutators called one after the other on stored scopes, outside a
\* pass: applyScope on the scope document as the store holds it, and
\* applyScopeRemoval.  ops holds the calls of the latest one, prevStore the
\* store before it, pass counts them.
JLRefs == {w1, w2, w3}
JLValues == {Absent} \cup {RefList(q) : q \in {l \in SeqUpTo(JLRefs, MaxRefs) : NoDup(l)}}

InitJL ==
    /\ store \in [workloads : {{}}, traits : {{}}, scopes : [ScopeRefs -> JLValues]]
    /\ status = <<>>
    /\ w = <<>>
    /\ w0 = <<>>
    /\ pc = "calls"
    /\ i = 0
    /\ j = 0
    /\ si = 0
    /\ ci = 0
    /\ toBeDeferenced = <<>>
    /\ err = NoErr
    /\ ops = <<>>
    /\ pass = 0
    /\ prevStore = store
    /\ prevErr = NoErr
    /\ inflight = <<>>

JoinScope ==
    /\ pc = "calls"
    /\ pass < MaxCalls
    /\ \E sr \in ScopeRefs, workloadRef \in JLRefs :
       \E out \in applyScopeOutcomes(ScopeDoc(sr, store.scopes[sr]), workloadRef) :
        LET r == applyScope(0, ScopeDoc(sr, store.scopes[sr]), workloadRef, out)
        IN  /\ ops' = r.calls
            /\ store' = IF r.written
                        THEN [store EXCEPT !.scopes[sr] = r.s.workloadRefs]
                        ELSE store
            /\ err' = r.err
    /\ pass' = pass + 1
    /\ prevStore' = store
    /\ prevErr' = err
    /\ UNCHANGED <<status, w, w0, pc, i, j, si, ci, toBeDeferenced>>
    /\ UNCHANGED inflight

LeaveScope ==
    /\ pc = "calls"
    /\ pass < MaxCalls
    /\ \E sr \in ScopeRefs, workloadRef \in JLRefs :
       LET ws == WorkloadStatus(workloadRef, <<WorkloadScope(sr)>>)
       IN  \E out \in applyScopeRemovalOutcomes(store.scopes, ws, WorkloadScope(sr)) :
            LET r == applyScopeRemoval(0, 1, store.scopes, ws, WorkloadScope(sr), out)
            IN  /\ ops' = r.calls
                /\ store' = IF r.written
                            THEN [store EXCEPT !.scopes[sr] = r.value]
                            ELSE store
                /\ err' = r.err
    /\ pass' = pass + 1
    /\ prevStore' = store
    /\ prevErr' = err
    /\ UNCHANGED <<status, w, w0, pc, i, j, si, ci, toBeDeferenced>>
    /\ UNCHANGED inflight

NextJL ==
    \/ JoinScope
    \/ LeaveScope

SpecJL == InitJL /\ [][NextJL]_vars

\* ------------------------------------------------------------- properties
Done == pc = "done"
Returned(e) == pc = "done" /\ err = e
OpsOf(o) == {k \in 1..Len(ops) : ops[k].op = o}
Writes == {"ApplyWorkload", "ApplyTrait", "UpdateScope"}
StorageOps == Writes \cup {"GetScope"}
Members(s) == Range(store.scopes[s].refs)
ScopeSet(ss) == {ss[k].ref : k \in 1..Len(ss)}
StatusScopeSet(st) == {st.Scopes[k].Reference : k \in 1..Len(st.Scopes)}

\* C1: Apply with an empty workload set returns the "no component" error
\* whatever the prior status is, and issues no storage operation at all: the
\* store is the store the pass started from.
C1_EmptySetIsFatal ==
    (pass >= 1 /\ Len(w0) = 0) =>
        /\ Returned(errNoComponent)
        /\ ops = <<>>
        /\ store = prevStore

C1_Witness ==
    /\ pass = 1
    /\ Len(w0) = 0
    /\ Len(status) > 0
    /\ Returned(errNoComponent)

\* C2: leave correctness within one pass.  When the prior status records
\* workload W in scopes {A, B}, the set holds W with the scope list {A} and the
\* pass returns nil, B's stored list has no reference of W and A's stored list
\* has it exactly once.
C2_LeaveCorrectness ==
    \A k \in 1..Len(status), m \in 1..Len(w0) :
        \A a, b \in ScopeRefs :
            ( /\ Returned(NoErr)
              /\ a # b
              /\ StatusScopeSet(status[k]) = {a, b}
              /\ SameRef(status[k].Reference, w0[m].Workload)
              /\ ScopeSet(w0[m].Scopes) = {a}
              /\ \A n \in 1..Len(w0) : SameRef(w0[n].Workload, w0[m].Workload) => n = m )
            => /\ status[k].Reference \notin Members(b)
               /\ Count(store.scopes[a].refs, status[k].Reference) = 1

\* C3: absent-workload cleanup.  When the prior status records workload W in
\* scopes {A}, no workload of the non-empty set equals W and the pass returns
\* nil, A's stored list has no reference of W.
C3_AbsentWorkloadCleanup ==
    \A k \in 1..Len(status) : \A a \in ScopeRefs :
        ( /\ Returned(NoErr)
          /\ Len(w0) > 0
          /\ StatusScopeSet(status[k]) = {a}
          /\ \A m \in 1..Len(w0) : ~SameRef(status[k].Reference, w0[m].Workload) )
        => status[k].Reference \notin Members(a)

\* C4: when Apply returns nil for a non-empty set, every workload and every
\* trait of the set was applied in that pass, the workloads in input order
\* and each workload before its traits.
AppliedAt(o, k, n) == {x \in OpsOf(o) : ops[x].at = k /\ ops[x].sub = n /\ ops[x].ok}
C4_AllApplied ==
    (Returned(NoErr) /\ Len(w0) > 0) =>
        /\ \A k \in 1..Len(w0) :
            /\ AppliedAt("ApplyWorkload", k, 0) # {}
            /\ \A n \in 1..Len(w0[k].Traits) :
                /\ AppliedAt("ApplyTrait", k, n) # {}
                /\ \A x \in AppliedAt("ApplyWorkload", k, 0), y \in AppliedAt("ApplyTrait", k, n) :
                    x < y
        /\ \A k, m \in 1..Len(w0) :
            k < m => \A x \in AppliedAt("ApplyWorkload", k, 0),
                        y \in AppliedAt("ApplyWorkload", m, 0) : x < y

\* C5: a second pass over the same prior status and workload set, neither
\* pass failing, leaves the store as the first pass left it: the same
\* workloads and traits, and in every scope the same members, none twice.
C5_Idempotent ==
    (pass >= 2 /\ Returned(NoErr)) =>
        /\ store.workloads = prevStore.workloads
        /\ store.traits = prevStore.traits
        /\ \A s \in ScopeRefs :
            /\ Members(s) = Range(prevStore.scopes[s].refs)
            /\ NoDup(store.scopes[s].refs)

C5_Witness ==
    /\ pass = 2
    /\ Returned(NoErr)
    /\ \E k \in OpsOf("UpdateScope") : ops[k].ok
    /\ store.traits # {}

\* C6: membership uniqueness.  From scopes that hold no reference twice, no
\* sequence of joins and leaves makes a scope hold a reference twice, and a
\* scope a reference was just joined to holds it exactly once, however many
\* times it was joined before.
JoinedNow(sr, r) ==
    /\ Len(ops) > 0
    /\ ops[1].op = "applyScope"
    /\ ops[1].obj.s.ref = sr
    /\ ops[1].obj.workloadRef = r
    /\ err = NoErr

C6_MembershipUnique ==
    \A sr \in ScopeRefs :
        /\ NoDup(store.scopes[sr].refs)
        /\ \A r \in JLRefs : JoinedNow(sr, r) => Count(store.scopes[sr].refs, r) = 1

\* A join of a reference that an earlier join has added: nothing is written.
C6_Witness ==
    \E sr \in ScopeRefs, r \in JLRefs :
        /\ pass >= 2
        /\ JoinedNow(sr, r)
        /\ Len(ops) = 1
        /\ store = prevStore
        /\ Len(store.scopes[sr].refs) = MaxRefs + 1
        /\ Count(store.scopes[sr].refs, r) = 1

\* C7: trait stamping.  A trait is applied only after its definition was
\* fetched in the pass; when the definition names a path, the trait applied
\* and the trait stored carry at that path the reference {apiVersion, kind,
\* name} of the workload the trait is attached to; when it names none, the
\* trait is applied with no reference set.
StampOk(t, wl) ==
    IF TraitDefinitions[t.kind].WorkloadRefPath # ""
    THEN /\ t.path = TraitDefinitions[t.kind].WorkloadRefPath
         /\ t.value = TypedReference(wl.Workload.apiVersion, wl.Workload.kind,
                                     wl.Workload.name)
    ELSE /\ t.path = ""
         /\ t.value = NoRef

C7_TraitStamping ==
    /\ \A x \in OpsOf("ApplyTrait") :
        /\ \E y \in OpsOf("FetchTraitDefinition") :
            /\ y < x
            /\ ops[y].ok
            /\ ops[y].at = ops[x].at
            /\ ops[y].sub = ops[x].sub
        /\ StampOk(ops[x].obj, w0[ops[x].at])
    /\ \A d \in store.traits : \E k \in 1..Len(w0) : StampOk(d, w0[k])

\* The trait of the second workload is stored with that workload's reference.
C7_Witness ==
    /\ Returned(NoErr)
    /\ Len(w0) = 2
    /\ w0[1].Workload # w0[2].Workload
    /\ \E x \in OpsOf("ApplyTrait") :
        /\ ops[x].ok
        /\ ops[x].at = 2
        /\ ops[x].obj.path = PathWorkloadRef
        /\ ops[x].obj.value = w0[2].Workload
        /\ ops[x].obj \in store.traits

\* C8: fail-fast.  The step of a pass that fails ends the pass with an
\* error and writes nothing, no step follows it in that pass, and what the
\* pass had written before stays in the store.
Failed(o) == \E k \in 1..Len(o) : ~o[k].ok
C8_FailFast ==
    [][ /\ Failed(ops') =>
            /\ ~Failed(ops)
            /\ pc' = "done"
            /\ err' # NoErr
            /\ store' = store
        /\ (err' # NoErr) => pc' = "done"
        /\ store.workloads \subseteq store'.workloads
        /\ \A d \in store.traits :
            \E e \in store'.traits : e.kind = d.kind /\ e.name = d.name
      ]_vars

\* A trait upsert failed after the workload was written.
C8_Witness ==
    /\ Returned(errFmtApplyTrait)
    /\ Failed(ops)
    /\ store.workloads # {}
    /\ \E k \in OpsOf("ApplyWorkload") : ops[k].ok

\* C9: in a pass over a non-empty set that returns nil, dereferenceScope runs
\* exactly once, after every join, and computes the candidates of every
\* status entry.
C9_DereferenceOnce ==
    (Returned(NoErr) /\ Len(w0) > 0) =>
        /\ Cardinality(OpsOf("dereferenceScope")) = 1
        /\ \A x \in OpsOf("applyScope"), y \in OpsOf("dereferenceScope") : x < y
        /\ \A k \in 1..Len(status) :
            \E x \in OpsOf("findDereferencedScopes") : ops[x].at = k

\* C10: first-scope-only join.  In a pass that returns nil every workload
\* with a scope list is joined to the first scope of the list and to no
\* other; a workload without scopes is joined to nothing.
JoinsOf(k) == {x \in OpsOf("applyScope") : ops[x].at = k}
C10_FirstScopeJoin ==
    Returned(NoErr) =>
        \A k \in 1..Len(w0) :
            IF Len(w0[k].Scopes) > 0
            THEN /\ Cardinality(JoinsOf(k)) = 1
                 /\ \A x \in JoinsOf(k) : ops[x].obj.s.ref = w0[k].Scopes[1].ref
            ELSE JoinsOf(k) = {}

\* ------------------------------------------------- passes driven for ever
\* The caller of a level-triggered reconciliation: it calls Apply again
\* whenever a pass has returned, with the same prior status and the same
\* workload set, as often as it takes.  The workloads carry no trait, and
\* the passes after the first are not counted.
ApplyCallLive ==
    /\ pc = "idle"
    /\ \E st \in SeqUpTo(StatusEntries, MaxStatus), v \in DocValues :
       \E wset \in SeqUpTo(Workloads(<<>>, v), MaxWl) :
          /\ status' = st
          /\ w0' = wset
          /\ Begin(wset)
    /\ UNCHANGED <<store, prevStore, prevErr>>
    /\ UNCHANGED inflight

RedriveOn ==
    /\ pc = "done"
    /\ \E fresh \in BOOLEAN : w' = IF fresh THEN w0 ELSE w
    /\ ops' = <<>>
    /\ j' = 0
    /\ si' = 0
    /\ ci' = 0
    /\ toBeDeferenced' = <<>>
    /\ IF Len(w0) = 0
       THEN Return(errNoComponent) /\ i' = 0
       ELSE pc' = "workload" /\ i' = 1 /\ err' = NoErr
    /\ prevStore' = store
    /\ prevErr' = err
    /\ UNCHANGED <<store, status, w0, pass>>
    /\ UNCHANGED inflight

\* No call of the step fails.
NoFailure == \A k \in 1..Len(ops') : ops'[k].ok

NextLive ==
    \/ ApplyCallLive
    \/ RedriveOn
    \/ ApplyWorkload /\ NoFailure
    \/ ApplyScope /\ NoFailure
    \/ DereferenceScope
    \/ ApplyScopeRemoval /\ NoFailure

\* Passes without a failing storage operation, driven without end.
SpecLive == Init /\ [][NextLive]_vars /\ WF_vars(NextLive)

\* C11: retraction under re-driven passes.  With the same prior status and
\* workload set driven again and again and no operation failing, there comes
\* a time from which no scope holds a reference that the prior status
\* records for it and that no workload of the set asks for any more.
Unwanted(st) ==
    {a \in StatusScopeSet(st) :
        \A m \in 1..Len(w0) :
            SameRef(st.Reference, w0[m].Workload) => a \notin ScopeSet(w0[m].Scopes)}
Retracted ==
    \A k \in 1..Len(status) : \A a \in Unwanted(status[k]) :
        status[k].Reference \notin Members(a)
C11_Retraction == <>[](Len(w0) > 0 => Retracted)

\* ------------------------------------------------------ the differ alone
\* dereferenceScope's computation of the candidates of one status entry
\* (lines 106-114), applied to a status entry and a workload set drawn from
\* the inputs; the scope lists of the workloads are not emptied by a pass
\* that returned early.
InitDiff ==
    /\ store = [workloads |-> {}, traits |-> {}, scopes |-> [sr \in ScopeRefs |-> Absent]]
    /\ status \in {<<st>> : st \in StatusEntries}
    /\ w \in SeqUpTo(Workloads(<<>>, Absent), MaxWl)
    /\ w0 = w
    /\ pc = "diff"
    /\ i = 0
    /\ j = 0
    /\ si = 0
    /\ ci = 0
    /\ toBeDeferenced = <<>>
    /\ err = NoErr
    /\ ops = <<>>
    /\ pass = 0
    /\ prevStore = store
    /\ prevErr = NoErr
    /\ inflight = <<>>

Differ ==
    /\ pc = "diff"
    /\ si' = 1
    /\ toBeDeferenced' = ToBeDeferenced(status[1], w)
    /\ pc' = "diffed"
    /\ UNCHANGED <<store, status, w, w0, i, j, ci, err, ops, pass, prevStore, prevErr>>
    /\ UNCHANGED inflight

NextDiff == Differ

SpecDiff == InitDiff /\ [][NextDiff]_vars

Candidates == {toBeDeferenced[k].Reference : k \in 1..Len(toBeDeferenced)}

Passes == 1..2
InFlight(k, sr, r) ==
    [kind |-> k, scope |-> sr, ref |-> r, at |-> "start", read |-> Absent,
     err |-> NoErr, written |-> FALSE]

InitConc ==
    /\ store \in [workloads : {{}}, traits : {{}}, scopes : [ScopeRefs -> JLValues]]
    /\ status = <<>>
    /\ w = <<>>
    /\ w0 = <<>>
    /\ pc = "passes"
    /\ i = 0
    /\ j = 0
    /\ si = 0
    /\ ci = 0
    /\ toBeDeferenced = <<>>
    /\ err = NoErr
    /\ ops = <<>>
    /\ pass = 0
    /\ prevStore = store
    /\ prevErr = NoErr
    /\ inflight \in [Passes -> {InFlight(k, sr, r) :
                                    k \in {"join", "leave"}, sr \in ScopeRefs, r \in JLRefs}]

\* The caller of a joining pass builds the scope document of the workload.
ScopeDocument(p) ==
    /\ pc = "passes"
    /\ inflight[p].kind = "join"
    /\ inflight[p].at = "start"
    /\ inflight' = [inflight EXCEPT ![p].at = "read",
                                    ![p].read = store.scopes[inflight[p].scope]]
    /\ UNCHANGED <<store, status, w, w0, pc, i, j, si, ci, toBeDeferenced, err, ops,
                   pass, prevStore, prevErr>>

\* Lines 147-174: applyScope on the document the pass holds.
JoinUpdate(p) ==
    /\ pc = "passes"
    /\ inflight[p].kind = "join"
    /\ inflight[p].at = "read"
    /\ \E out \in applyScopeOutcomes(ScopeDoc(inflight[p].scope, inflight[p].read),
                                     inflight[p].ref) :
        LET r == applyScope(p, ScopeDoc(inflight[p].scope, inflight[p].read),
                            inflight[p].ref, out)
        IN  /\ store' = IF r.written
                        THEN [store EXCEPT !.scopes[inflight[p].scope] = r.s.workloadRefs]
                        ELSE store
            /\ inflight' = [inflight EXCEPT ![p].at = "done", ![p].err = r.err,
                                            ![p].written = r.written]
    /\ UNCHANGED <<status, w, w0, pc, i, j, si, ci, toBeDeferenced, err, ops, pass,
                   prevStore, prevErr>>

\* Lines 183-189: applyScopeRemoval fetches the scope; a failed Get ends it.
LeaveGet(p) ==
    /\ pc = "passes"
    /\ inflight[p].kind = "leave"
    /\ inflight[p].at = "start"
    /\ \E ok \in BOOLEAN :
        inflight' = IF ok
                    THEN [inflight EXCEPT ![p].at = "read",
                                          ![p].read = store.scopes[inflight[p].scope]]
                    ELSE [inflight EXCEPT ![p].at = "done", ![p].err = errFmtApplyScope]
    /\ UNCHANGED <<store, status, w, w0, pc, i, j, si, ci, toBeDeferenced, err, ops,
                   pass, prevStore, prevErr>>

\* Lines 191-221: the rest of applyScopeRemoval on the document it fetched.
LeaveUpdate(p) ==
    /\ pc = "passes"
    /\ inflight[p].kind = "leave"
    /\ inflight[p].at = "read"
    /\ LET fetched == [store.scopes EXCEPT ![inflight[p].scope] = inflight[p].read]
           ws == WorkloadStatus(inflight[p].ref, <<WorkloadScope(inflight[p].scope)>>)
       IN  \E out \in applyScopeRemovalOutcomes(fetched, ws, WorkloadScope(inflight[p].scope))
                        \ {"get"} :
            LET r == applyScopeRemoval(p, 1, fetched, ws, WorkloadScope(inflight[p].scope), out)
            IN  /\ store' = IF r.written
                            THEN [store EXCEPT !.scopes[inflight[p].scope] = r.value]
                            ELSE store
                /\ inflight' = [inflight EXCEPT ![p].at = "done", ![p].err = r.err,
                                                ![p].written = r.written]
    /\ UNCHANGED <<status, w, w0, pc, i, j, si, ci, toBeDeferenced, err, ops, pass,
                   prevStore, prevErr>>

NextConc ==
    \E p \in Passes :
        \/ ScopeDocument(p)
        \/ JoinUpdate(p)
        \/ LeaveGet(p)
        \/ LeaveUpdate(p)

SpecConc == InitConc /\ [][NextConc]_vars

BothReturned == pc = "passes" /\ \A p \in Passes : inflight[p].at = "done"
SameMutationTarget(p, q) ==
    inflight[p].scope = inflight[q].scope /\ SameRef(inflight[p].ref, inflight[q].ref)

Finishes(p) == inflight[p].at = "read" /\ inflight'[p].at = "done" /\ inflight'[p].err = NoErr

Called == ops[1]
HeldBefore(sr) == IF prevStore.scopes[sr].set THEN Range(prevStore.scopes[sr].refs) ELSE {}
Updates == {k \in 1..Len(ops) : ops[k].op = "UpdateScope"}

\* C15: the two designed no-ops.  A join of a reference the scope already
\* lists, and a leave of a reference the fetched scope does not list (a scope
\* without a membership list included), return nil and issue no Update; a
\* failed field set, scope fetch or scope update is returned as an error, and
\* nothing else is.
C15_DesignedNoOps ==
    (pc = "calls" /\ pass > 0) =>
        /\ (Called.op = "applyScope" /\ Called.obj.workloadRef \in HeldBefore(Called.obj.s.ref)) =>
                err = NoErr /\ Updates = {} /\ store = prevStore /\ Len(ops) = 1
        /\ (/\ Called.op = "applyScopeRemoval"
            /\ ops[2].ok
            /\ Called.obj.workloadRef \notin HeldBefore(Called.obj.s)) =>
                err = NoErr /\ Updates = {} /\ store = prevStore /\ Len(ops) = 2
        /\ Failed(ops) => err # NoErr /\ store = prevStore
        /\ err # NoErr =>
                /\ ~ops[Len(ops)].ok
                /\ ops[Len(ops)].op \in {"SetValue", "GetScope", "UpdateScope"}

\* A leave from a scope that has no membership list returned nil after the Get.
C15_Witness ==
    /\ pc = "calls"
    /\ pass > 0
    /\ Called.op = "applyScopeRemoval"
    /\ ~prevStore.scopes[Called.obj.s].set
    /\ Len(ops) = 2
    /\ ops[2].op = "GetScope"
    /\ ops[2].ok
    /\ err = NoErr

\* The scopes a pass may touch: those the workload set or the prior status names.
NamedScopes ==
    UNION {ScopeSet(w[k].Scopes) : k \in 1..Len(w)}
        \cup UNION {StatusScopeSet(status[k]) : k \in 1..Len(status)}
SameDocument(d, e) == d.kind = e.kind /\ d.name = e.name

\* C16: frame of Apply.  No step of a pass deletes a stored workload or
\* trait, writes a workload or trait that is not in the workload set, changes
\* a scope that neither the set nor the prior status names, or changes the
\* prior status.
C16_ApplyFrame ==
    [][pc # "idle" =>
        /\ store.workloads \subseteq store'.workloads
        /\ \A d \in store.traits : \E e \in store'.traits : SameDocument(d, e)
        /\ store'.workloads \ store.workloads \subseteq {w[k].Workload : k \in 1..Len(w)}
        /\ \A e \in store'.traits \ store.traits :
                \E k \in 1..Len(w) : \E m \in 1..Len(w[k].Traits) : SameDocument(e, w[k].Traits[m])
        /\ \A sr \in ScopeRefs : store'.scopes[sr] # store.scopes[sr] => sr \in NamedScopes
        /\ status' = status
      ]_vars

\* A pass applied two workloads and a trait and joined a scope; the prior
\* status names no scope, and the other scope is as it was.
C16_Witness ==
    /\ pc = "done"
    /\ err = NoErr
    /\ pass = 1
    /\ Cardinality(store.workloads) = 2
    /\ store.traits # {}
    /\ store.scopes[scA] # prevStore.scopes[scA]
    /\ scB \notin NamedScopes
    /\ store.scopes[scB].set

Scoped == {k \in 1..Len(w) : Len(w[k].Scopes) > 0}
Joins == OpsOf("applyScope")
Leaves == OpsOf("applyScopeRemoval")
JoinCalls == {"applyScope", "SetValue", "UpdateScope"}

\* C17: one pass, one join.  A pass attempts at most one join and never both
\* a join and a leave.  The join is that of the first scope of the first
\* workload that has a scope list; Apply returns its result, no later
\* workload is applied and dereferenceScope is not called.  A leave happens
\* only in a pass whose workloads all have an empty scope list.
C17_OneJoinThenReturn ==
    pc \in {"workload", "trait", "scope", "deref", "leave", "done"} =>
        /\ Cardinality(Joins) <= 1
        /\ Joins = {} \/ Leaves = {}
        /\ \A x \in Joins :
            /\ ops[x].at \in Scoped
            /\ \A k \in Scoped : ops[x].at <= k
            /\ ops[x].obj.s.ref = w0[ops[x].at].Scopes[1].ref
            /\ pc = "done"
            /\ err = NoErr <=> ~Failed(ops)
            /\ \A y \in x..Len(ops) : ops[y].op \in JoinCalls /\ ops[y].at = ops[x].at
            /\ \A y \in OpsOf("ApplyWorkload") : ops[y].at <= ops[x].at
            /\ OpsOf("dereferenceScope") = {}
        /\ (pc = "done" /\ Scoped # {}) => Joins # {} \/ Failed(ops)
        /\ (Leaves # {} \/ OpsOf("dereferenceScope") # {}) => Scoped = {}

\* A pass over two workloads joined the first to the first of its two scopes
\* and returned nil, with a prior status that records a scope to leave.
C17_Witness ==
    /\ pc = "done"
    /\ err = NoErr
    /\ Len(w) = 2
    /\ Len(w[1].Scopes) = 2
    /\ Joins # {}
    /\ \E x \in OpsOf("UpdateScope") : ops[x].ok
    /\ Len(status) = 1
    /\ Len(status[1].Scopes) > 0
    /\ AppliedAt("ApplyWorkload", 2, 0) = {}

\* C18: no reference is both joined to and removed from one scope in one
\* pass, also when several workloads of the set equal the reference of a
\* prior-status entry.
C18_NoJoinAndLeaveOfOne ==
    \A x \in Joins, y \in Leaves :
        ~ /\ ops[x].obj.s.ref = ops[y].obj.s
          /\ SameRef(ops[x].obj.workloadRef, ops[y].obj.workloadRef)

\* Two workloads of the set equal the prior reference; the first was joined
\* to a scope the prior status records, the last has no scope, so the scope
\* would be a removal candidate; the pass returned nil.
C18_Witness ==
    /\ pc = "done"
    /\ err = NoErr
    /\ Len(w) = 2
    /\ Len(status) = 1
    /\ Matches(status[1], w0) = {1, 2}
    /\ Len(w0[2].Scopes) = 0
    /\ Len(w0[1].Scopes) > 0
    /\ w0[1].Scopes[1].ref \in {a.Reference : a \in Range(ToBeDeferenced(status[1], w0))}
    /\ \E x \in Joins : ops[x + 1].op = "UpdateScope" /\ ops[x + 1].ok
    /\ Leaves = {}

====
